---- MODULE Spec2Model ----
(***************************************************************************)
(* A model of the watermarking backend: the embed server                   *)
(* (embed_backend.py), the extract server (extract_backend.py), the verify *)
(* server (verify_backend.py), the launcher (run_servers.py) and the       *)
(* integration test (test_integration.py).                                 *)
(*                                                                         *)
(* Numbers.  TLC has integers only, so every real quantity is kept as a    *)
(* scaled integer: PSNR in hundredths of a decibel, SSIM and correlation   *)
(* in hundredths, alpha in hundredths (ALPHA = 7 is 0.07), an embedded     *)
(* plane in units of 1/200.  Arithmetic is exact over the rationals;       *)
(* floating-point rounding of the last unit is not modelled.               *)
(***************************************************************************)
EXTENDS Integers, Sequences, FiniteSets, TLC

VARIABLES
    \* verify_backend.py line 72 on its own: the three metrics and the verdict
    metrics, status,
    \* verify_backend.py: the clock, the report directory, the calls in flight
    clock, fs, call, foreign,
    \* embed_backend.py, embedd_matrix on its own: its arguments and its result
    COVER, WATERMARK, alpha, embedded,
    \* extract_backend.py, recover_watermark_channel on its own
    channel_data, ralpha, recovered,
    \* the three servers behind their ports, and a client that posts to /embed
    \* and then to /extract
    phase, embed_req, embed_resp, extract_req, extract_resp

vars == <<metrics, status, clock, fs, call, foreign, COVER, WATERMARK, alpha, embedded,
          channel_data, ralpha, recovered, phase, embed_req, embed_resp, extract_req,
          extract_resp>>
varsHttp == <<phase, embed_req, embed_resp, extract_req, extract_resp>>

\* what the actions of one part leave alone: the variables of the other parts
exceptStatus == <<clock, fs, call, foreign, COVER, WATERMARK, alpha, embedded,
                  channel_data, ralpha, recovered, varsHttp>>
exceptVerify == <<metrics, status, COVER, WATERMARK, alpha, embedded,
                  channel_data, ralpha, recovered, varsHttp>>
exceptEmbedd == <<metrics, status, clock, fs, call, foreign, channel_data, ralpha, recovered,
                  varsHttp>>
exceptRecover == <<metrics, status, clock, fs, call, foreign, COVER, WATERMARK, alpha, embedded,
                   varsHttp>>
exceptHttp == <<metrics, status, clock, fs, call, foreign, COVER, WATERMARK, alpha, embedded,
                channel_data, ralpha, recovered>>

-----------------------------------------------------------------------------
(* Small helpers *)

Max(a, b) == IF a >= b THEN a ELSE b
Min(a, b) == IF a <= b THEN a ELSE b
Abs(a) == IF a >= 0 THEN a ELSE -a

RECURSIVE SumSeq(_)
SumSeq(s) == IF s = <<>> THEN 0 ELSE Head(s) + SumSeq(Tail(s))

-----------------------------------------------------------------------------
(* verify_backend.py: the decision rule *)

\* numpy's nan (np.corrcoef of a sequence with zero variance): no number, and
\* every comparison with it is False.
NaN == -99999

\* psnr_value when mse == 0, in hundredths of a decibel (999.99)
PSNR_SENTINEL == 99999
\* the thresholds of line 72: 30 dB, 0.95, 0.98
PSNR_MIN == 3000
SSIM_MIN == 95
CORR_MIN == 98

\* Python's x >= t on floats
Geq(x, t) == x # NaN /\ x >= t

\* a faulty variant of Status: strict comparisons, so a metric equal to its
\* threshold is rejected
StatusStrict(psnr_value, ssim_value, correlation) ==
    IF psnr_value # NaN /\ psnr_value > PSNR_MIN
       /\ ssim_value # NaN /\ ssim_value > SSIM_MIN
       /\ correlation # NaN /\ correlation > CORR_MIN
    THEN "Authentic" ELSE "Tampered"

Status(psnr_value, ssim_value, correlation) ==
    IF Geq(psnr_value, PSNR_MIN) /\ Geq(ssim_value, SSIM_MIN) /\ Geq(correlation, CORR_MIN)
    THEN "Authentic" ELSE "Tampered"

\* The metric values the decision rule is tried on: each threshold, its two
\* neighbours, the extremes, and nan for the correlation.
PsnrValues == {0, PSNR_MIN - 1, PSNR_MIN, PSNR_MIN + 1, PSNR_SENTINEL}
SsimValues == {-100, SSIM_MIN - 1, SSIM_MIN, SSIM_MIN + 1, 100}
CorrValues == {NaN, -100, CORR_MIN - 1, CORR_MIN, CORR_MIN + 1, 100}

NoMetrics == [psnr |-> 0, ssim |-> 0, correlation |-> 0]

Decide ==
    /\ status = ""
    /\ status' = Status(metrics.psnr, metrics.ssim, metrics.correlation)
    /\ UNCHANGED metrics
    /\ UNCHANGED exceptStatus

-----------------------------------------------------------------------------
(* Planes: a 2-D array is [h, w, px] with px[i][j] the sample of row i,      *)
(* column j (1-based here, 0-based in numpy).                                *)

Plane(h, w, px) == [h |-> h, w |-> w, px |-> px]

\* every plane of the given shape with samples from vals
PlanesOf(h, w, vals) == {Plane(h, w, px) : px \in [1..h -> [1..w -> vals]]}

\* ndarray.flatten(): the samples in row-major order
RECURSIVE FlattenRows(_)
FlattenRows(rows) == IF rows = <<>> THEN <<>> ELSE Head(rows) \o FlattenRows(Tail(rows))
Flatten(p) == FlattenRows(p.px)

\* cv2.resize(src, (dw, dh)), INTER_LINEAR (the default): destination sample
\* d (0-based) reads the source at ((2d+1)*slen - dlen) / (2*dlen), clamped to
\* the source, and interpolates between the two neighbours; the result is
\* rounded to the nearest integer sample.
ResizeCoord(d, slen, dlen) ==
    LET num == (2 * d + 1) * slen - dlen
        den == 2 * dlen
        s0  == num \div den
    IN  IF s0 < 0 THEN [s |-> 0, fr |-> 0, den |-> den]
        ELSE IF s0 >= slen - 1 THEN [s |-> slen - 1, fr |-> 0, den |-> den]
        ELSE [s |-> s0, fr |-> num - s0 * den, den |-> den]

ResizeLinear(src, dh, dw) ==
    LET val(i, j) ==
            LET cy == ResizeCoord(i - 1, src.h, dh)
                cx == ResizeCoord(j - 1, src.w, dw)
                y0 == cy.s + 1
                x0 == cx.s + 1
                y1 == Min(y0 + 1, src.h)
                x1 == Min(x0 + 1, src.w)
                D  == cy.den * cx.den
                tot == (cy.den - cy.fr) * (cx.den - cx.fr) * src.px[y0][x0]
                       + (cy.den - cy.fr) * cx.fr * src.px[y0][x1]
                       + cy.fr * (cx.den - cx.fr) * src.px[y1][x0]
                       + cy.fr * cx.fr * src.px[y1][x1]
            IN  (2 * tot + D) \div (2 * D)
    IN  Plane(dh, dw, [i \in 1..dh |-> [j \in 1..dw |-> val(i, j)]])

-----------------------------------------------------------------------------
(* verify_backend.py: the metrics of lines 59-69.                            *)
(* A decoded image is a one-row plane of NSamples samples (the model's       *)
(* stand-in for a height x width x 3 array); the metrics read it flattened.  *)
(* Samples stay small so that every product fits TLC's 32-bit integers.      *)

NSamples == 2
SampleValues == {0, 9}
PIXEL_MAX == 255

RECURSIVE Pow10(_)
Pow10(k) == IF k = 0 THEN 1 ELSE 10 * Pow10(k - 1)

\* sums over the flattened samples
Dot(x, y) == SumSeq([i \in 1..Len(x) |-> x[i] * y[i]])
\* n * sum(x*y) - sum(x) * sum(y): n^2 times the covariance
Cov(x, y) == Len(x) * Dot(x, y) - SumSeq(x) * SumSeq(y)
\* sum((x - y)^2): n times mse
SqErr(x, y) == SumSeq([i \in 1..Len(x) |-> (x[i] - y[i]) * (x[i] - y[i])])

\* lines 59-61.  10*log10(PIXEL_MAX^2 / mse) is kept to the decade below it
\* (1000 * floor(log10(PIXEL_MAX^2 / mse)) hundredths of a decibel), which
\* keeps every comparison with a multiple of 10 dB, the 30 dB of line 72
\* among them, exact.
Psnr(x, y) ==
    LET sse == SqErr(x, y)
        n   == Len(x)
    IN  IF sse = 0 THEN PSNR_SENTINEL
        ELSE LET k == CHOOSE k \in 0..5 :
                        /\ Pow10(k) * sse <= PIXEL_MAX * PIXEL_MAX * n
                        /\ Pow10(k + 1) * sse > PIXEL_MAX * PIXEL_MAX * n
             IN  1000 * k

\* line 66: skimage's structural_similarity (K1 = 0.01, K2 = 0.03, data range
\* 255, sample covariance), evaluated on one window that covers the image:
\* (2 ux uy + C1)(2 vxy + C2) / ((ux^2 + uy^2 + C1)(vx + vy + C2)) with
\* C1 = 6.5025 = 2601/400 and C2 = 58.5225 = 23409/400, each factor floored
\* to hundredths.
Ssim(x, y) ==
    LET n  == Len(x)
        sx == SumSeq(x)
        sy == SumSeq(y)
        a1 == 800 * sx * sy + 2601 * n * n
        b1 == 400 * (sx * sx + sy * sy) + 2601 * n * n
        a2 == 800 * Cov(x, y) + 23409 * n * (n - 1)
        b2 == 400 * (Cov(x, x) + Cov(y, y)) + 23409 * n * (n - 1)
    IN  (((100 * a1) \div b1) * ((100 * a2) \div b2)) \div 100

\* line 69: np.corrcoef(x, y)[0, 1] = cov / sqrt(var_x * var_y), in hundredths
\* (truncated); nan when either variance is 0 (0/0 in numpy).
Corrcoef(x, y) ==
    LET cxy == Cov(x, y)
        vv  == Cov(x, x) * Cov(y, y)
    IN  IF vv = 0 THEN NaN
        ELSE LET k == CHOOSE k \in 0..100 :
                        /\ k * k * vv <= 10000 * cxy * cxy
                        /\ (k = 100 \/ (k + 1) * (k + 1) * vv > 10000 * cxy * cxy)
             IN  IF cxy >= 0 THEN k ELSE -k

-----------------------------------------------------------------------------
(* verify_backend.py: the /verify handler.  Flask's development server runs  *)
(* each request in a thread of its own, so a call is a sequence of steps,    *)
(* one per access to the clock or to the report directory.                   *)

NumCalls == 2
MaxClock == 1
Calls == 1..NumCalls

NoPlane == Plane(0, 0, <<>>)
\* an uploaded file: absent from the form, not an image, or an image
Upload(kind, img) == [kind |-> kind, img |-> img]
Images == PlanesOf(1, NSamples, SampleValues)
SmallImages == PlanesOf(1, 1, SampleValues)
InitialUploads ==
    {Upload("missing", NoPlane), Upload("bad", NoPlane)} \cup {Upload("image", p) : p \in Images}
ExtractedUploads ==
    InitialUploads \cup {Upload("image", p) : p \in SmallImages}

\* the files of STATIC_REPORT_DIR: <<"initial" | "extracted" | "report", timestamp>>
FileNames == {"initial", "extracted", "report"} \X (0..MaxClock)
NoFile == [exists |-> FALSE, by |-> 0, imgs |-> <<>>]
File(c, imgs) == [exists |-> TRUE, by |-> c, imgs |-> imgs]

NoResponse ==
    [code |-> 0, text |-> "", psnr |-> 0, ssim |-> 0, correlation |-> 0,
     status |-> "", downloadLink |-> -1]
ErrorResponse(code, text) == [NoResponse EXCEPT !.code = code, !.text = text]

IdleCall ==
    [pc |-> "idle", initial_watermark |-> NoPlane, extracted_watermark |-> NoPlane,
     psnr_value |-> 0, ssim_value |-> 0, correlation |-> 0, status |-> "",
     timestamp |-> -1, pdf |-> <<>>, response |-> NoResponse]

NoFiles == [f \in FileNames |-> NoFile]
NoCalls == [c \in Calls |-> IdleCall]

\* datetime.now() moves on by a second
Tick ==
    /\ UNCHANGED exceptVerify
    /\ clock < MaxClock
    /\ clock' = clock + 1
    /\ UNCHANGED <<fs, call, foreign>>

\* lines 59-72 on the two decoded images
Metrics(initial_watermark, extracted_watermark) ==
    LET x == Flatten(initial_watermark)
        y == Flatten(extracted_watermark)
        psnr_value  == Psnr(x, y)
        ssim_value  == Ssim(x, y)
        correlation == Corrcoef(x, y)
    IN  [psnr_value |-> psnr_value, ssim_value |-> ssim_value, correlation |-> correlation,
         status |-> Status(psnr_value, ssim_value, correlation)]

\* lines 36-72: read the two uploads, decode them, resize the extracted one to
\* the initial one's size and compute the metrics and the verdict
Receive(c) ==
    /\ UNCHANGED exceptVerify
    /\ call[c].pc = "idle"
    /\ \E up1 \in InitialUploads, up2 \in ExtractedUploads :
        IF up1.kind = "missing" \/ up2.kind = "missing"
        THEN call' = [call EXCEPT ![c].pc = "done",
                        ![c].response = ErrorResponse(400, "Both watermark images are required")]
        ELSE IF up1.kind = "bad" \/ up2.kind = "bad"
        THEN call' = [call EXCEPT ![c].pc = "done",
                        ![c].response = ErrorResponse(400, "Error reading the images")]
        ELSE LET initial_watermark == up1.img
                 extracted_watermark ==
                     ResizeLinear(up2.img, initial_watermark.h, initial_watermark.w)
                 m == Metrics(initial_watermark, extracted_watermark)
             IN  call' = [call EXCEPT ![c].pc = "stamp",
                            ![c].initial_watermark = initial_watermark,
                            ![c].extracted_watermark = extracted_watermark,
                            ![c].psnr_value = m.psnr_value,
                            ![c].ssim_value = m.ssim_value,
                            ![c].correlation = m.correlation,
                            ![c].status = m.status]
    /\ UNCHANGED <<clock, fs, foreign>>

\* lines 76-83: the names of the report and of the two temporary images are
\* made from the clock, to the second
Stamp(c) ==
    /\ UNCHANGED exceptVerify
    /\ call[c].pc = "stamp"
    /\ call' = [call EXCEPT ![c].pc = "write_initial", ![c].timestamp = clock]
    /\ UNCHANGED <<clock, fs, foreign>>

\* what a call does to a file another call created
Touch(c, op, f) ==
    IF fs[f].exists /\ fs[f].by # c THEN {<<c, op, f>>} ELSE {}

\* cv2.imwrite / pdf.save(): create the file or overwrite it
WriteFile(c, kind, imgs, next) ==
    LET f == <<kind, call[c].timestamp>>
    IN  /\ fs' = [fs EXCEPT ![f] = File(c, imgs)]
        /\ foreign' = foreign \cup Touch(c, "overwrite", f)
        /\ call' = [call EXCEPT ![c].pc = next]
        /\ UNCHANGED clock

\* line 151: any exception of lines 49-149 ends the call with a 500
Fail500(c) ==
    call' = [call EXCEPT ![c].pc = "done",
               ![c].response = ErrorResponse(500, "Internal server error during verification.")]

\* line 84
WriteInitial(c) ==
    /\ UNCHANGED exceptVerify
    /\ call[c].pc = "write_initial"
    /\ WriteFile(c, "initial", <<call[c].initial_watermark>>, "write_extracted")

\* line 85
WriteExtracted(c) ==
    /\ UNCHANGED exceptVerify
    /\ call[c].pc = "write_extracted"
    /\ WriteFile(c, "extracted", <<call[c].extracted_watermark>>, "draw_initial")

\* pdf.drawImage(path, ...): reads the image file; raises when it is not there
DrawImage(c, kind, next) ==
    LET f == <<kind, call[c].timestamp>>
    IN  /\ IF fs[f].exists
           THEN /\ call' = [call EXCEPT ![c].pc = next,
                              ![c].pdf = call[c].pdf \o fs[f].imgs]
                /\ foreign' = foreign \cup Touch(c, "read", f)
           ELSE /\ Fail500(c)
                /\ UNCHANGED foreign
        /\ UNCHANGED <<clock, fs>>

\* line 101
DrawInitial(c) ==
    /\ UNCHANGED exceptVerify
    /\ call[c].pc = "draw_initial"
    /\ DrawImage(c, "initial", "draw_extracted")

\* line 102
DrawExtracted(c) ==
    /\ UNCHANGED exceptVerify
    /\ call[c].pc = "draw_extracted"
    /\ DrawImage(c, "extracted", "save")

\* line 133
Save(c) ==
    /\ UNCHANGED exceptVerify
    /\ call[c].pc = "save"
    /\ WriteFile(c, "report", call[c].pdf, "remove_initial")

\* os.remove(path): raises FileNotFoundError when the file is not there
RemoveFile(c, kind, next) ==
    LET f == <<kind, call[c].timestamp>>
    IN  /\ IF fs[f].exists
           THEN /\ fs' = [fs EXCEPT ![f] = NoFile]
                /\ foreign' = foreign \cup Touch(c, "delete", f)
                /\ call' = [call EXCEPT ![c].pc = next]
           ELSE /\ Fail500(c)
                /\ UNCHANGED <<fs, foreign>>
        /\ UNCHANGED clock

\* line 136
RemoveInitial(c) ==
    /\ UNCHANGED exceptVerify
    /\ call[c].pc = "remove_initial"
    /\ RemoveFile(c, "initial", "remove_extracted")

\* line 137
RemoveExtracted(c) ==
    /\ UNCHANGED exceptVerify
    /\ call[c].pc = "remove_extracted"
    /\ RemoveFile(c, "extracted", "respond")

\* lines 140-149
Respond(c) ==
    /\ UNCHANGED exceptVerify
    /\ call[c].pc = "respond"
    /\ call' = [call EXCEPT ![c].pc = "done",
                  ![c].response = [code |-> 200, text |-> "",
                                   psnr |-> call[c].psnr_value,
                                   ssim |-> call[c].ssim_value,
                                   correlation |-> call[c].correlation,
                                   status |-> call[c].status,
                                   downloadLink |-> call[c].timestamp]]
    /\ UNCHANGED <<clock, fs, foreign>>

verify_watermarks(c) ==
    \/ Receive(c)
    \/ Stamp(c)
    \/ WriteInitial(c)
    \/ WriteExtracted(c)
    \/ DrawInitial(c)
    \/ DrawExtracted(c)
    \/ Save(c)
    \/ RemoveInitial(c)
    \/ RemoveExtracted(c)
    \/ Respond(c)

NextVerify == Tick \/ \E c \in Calls : verify_watermarks(c)

-----------------------------------------------------------------------------
(* embed_backend.py: embedd_matrix, the row-pair embedding of one plane.     *)
(* alpha is in hundredths; the returned plane is in units of 1/200, so that  *)
(* (even + odd) / 2 + WATERMARK * alpha is an integer.                       *)

ALPHA == 7
Alphas == {ALPHA, 2 * ALPHA}

\* COVER[::2] and COVER[1::2]: rows 0, 2, 4, ... and rows 1, 3, 5, ... (0-based)
EvenRows(p) == Plane((p.h + 1) \div 2, p.w, [i \in 1..((p.h + 1) \div 2) |-> p.px[2 * i - 1]])
OddRows(p) == Plane(p.h \div 2, p.w, [i \in 1..(p.h \div 2) |-> p.px[2 * i]])

\* BORDER_REFLECT_101 (cv2's default border): index i (1-based) of a row or a
\* column of length n, reflected into 1..n without repeating the edge sample
Reflect101(i, n) ==
    IF n = 1 THEN 1
    ELSE LET period == 2 * (n - 1)
             m == (i - 1) % period
         IN  IF m < n THEN m + 1 ELSE period - m + 1

\* cv2.GaussianBlur(src, (5, 5), 0) on 8-bit samples: the separable kernel
\* [1, 4, 6, 4, 1] / 16 in both directions, rounded to the nearest sample
GaussKernel == <<1, 4, 6, 4, 1>>
GaussianBlur(src) ==
    LET val(i, j) ==
            LET tot == SumSeq([a \in 1..5 |->
                         SumSeq([b \in 1..5 |->
                             GaussKernel[a] * GaussKernel[b]
                             * src.px[Reflect101(i + a - 3, src.h)][Reflect101(j + b - 3, src.w)]])])
            IN  (tot + 128) \div 256
    IN  Plane(src.h, src.w, [i \in 1..src.h |-> [j \in 1..src.w |-> val(i, j)]])

\* lines 51-59: the watermark resized to the shape of the even rows when its
\* shape differs, then blurred
Payload(cover, watermark) ==
    LET even == EvenRows(cover)
        resized == IF <<even.h, even.w>> # <<watermark.h, watermark.w>>
                   THEN ResizeLinear(watermark, even.h, even.w)
                   ELSE watermark
    IN  GaussianBlur(resized)

NotEmbedded == [done |-> FALSE, ok |-> FALSE, plane |-> NoPlane]

\* a faulty variant of EmbeddRow: both rows get average + watermark
EmbeddRowSameSign(e, o, wm, a, parity) == 100 * (e + o) + 2 * a * wm

\* lines 63-64, one sample, times 200: parity 0 is Aeven = (even + odd) / 2 +
\* WATERMARK, parity 1 is Aodd = (even + odd) / 2 - WATERMARK
EmbeddRow(e, o, wm, a, parity) ==
    IF parity = 0 THEN 100 * (e + o) + 2 * a * wm ELSE 100 * (e + o) - 2 * a * wm

\* lines 47-69.  With an odd number of rows the even rows are one more than
\* the odd rows and numpy cannot broadcast Aeven / Aodd back into COVER: the
\* call raises (ok = FALSE).
embedd_matrix(cover, watermark, a) ==
    LET even == EvenRows(cover)
        odd  == OddRows(cover)
        wm   == Payload(cover, watermark)
    IN  IF even.h # odd.h
        THEN [done |-> TRUE, ok |-> FALSE, plane |-> NoPlane]
        ELSE [done |-> TRUE, ok |-> TRUE,
              plane |-> Plane(cover.h, cover.w,
                  [r \in 1..cover.h |-> [j \in 1..cover.w |->
                      LET i == (r + 1) \div 2
                      IN  EmbeddRow(even.px[i][j], odd.px[i][j], wm.px[i][j], a, (r + 1) % 2)]])]

MaxCoverRows == 4
Widths == 1..2
CoverValues == {0, 255}
WatermarkValues == {0, 255}
Covers == UNION {PlanesOf(h, w, CoverValues) : h \in 1..MaxCoverRows, w \in Widths}
Watermarks == UNION {PlanesOf(h, w, WatermarkValues) : h \in 1..2, w \in Widths}

Embedd ==
    /\ ~embedded.done
    /\ embedded' = embedd_matrix(COVER, WATERMARK, alpha)
    /\ UNCHANGED <<COVER, WATERMARK, alpha>>
    /\ UNCHANGED exceptEmbedd

-----------------------------------------------------------------------------
(* extract_backend.py: recover_watermark_channel.  wm_float is a plane of    *)
(* rationals with one denominator: wm_float[i][j] = num[i][j] / den.         *)

NotRecovered ==
    [done |-> FALSE, ok |-> FALSE, num |-> NoPlane, den |-> 1, img |-> NoPlane]
\* return None: line 30, 40, 52 or the except of lines 62-65
ReturnNone ==
    [done |-> TRUE, ok |-> FALSE, num |-> NoPlane, den |-> 1, img |-> NoPlane]

\* channel_data[:-1, :]
DropLastRow(p) == Plane(p.h - 1, p.w, SubSeq(p.px, 1, p.h - 1))

\* a faulty variant of CropOdd: an odd height is left as it is
CropOddKept(p) == p

\* lines 35-38: a plane of odd height loses its last row
CropOdd(p) == IF p.h % 2 # 0 THEN DropLastRow(p) ELSE p

\* line 55: (even - odd) / (2 * alpha), alpha in hundredths:
\* 100 * (even - odd) over 2 * alpha
WmFloatNum(p) ==
    Plane(p.h \div 2, p.w,
          [i \in 1..(p.h \div 2) |-> [j \in 1..p.w |-> 100 * (p.px[2 * i - 1][j] - p.px[2 * i][j])]])
WmFloatDen(a) == 2 * a

PlaneMin(p) == CHOOSE m \in {p.px[i][j] : i \in 1..p.h, j \in 1..p.w} :
                  \A i \in 1..p.h, j \in 1..p.w : m <= p.px[i][j]
PlaneMax(p) == CHOOSE m \in {p.px[i][j] : i \in 1..p.h, j \in 1..p.w} :
                  \A i \in 1..p.h, j \in 1..p.w : m >= p.px[i][j]

Normalized(ok, img) == [ok |-> ok, img |-> img]

\* faulty variants of NormalizeMinMax: no stretch at all (each sample
\* saturated to 0..255 and truncated), and a stretch that divides by the range
\* even when the range is 0, and so raises
NormalizeNoStretch(num, den) ==
    Normalized(num.h > 0 /\ num.w > 0,
               Plane(num.h, num.w,
                     [i \in 1..num.h |-> [j \in 1..num.w |->
                         Max(0, Min(255, num.px[i][j] \div den))]]))
NormalizeNoZeroRange(num, den) ==
    IF num.h = 0 \/ num.w = 0 \/ PlaneMax(num) = PlaneMin(num)
    THEN Normalized(FALSE, NoPlane)
    ELSE Normalized(TRUE,
               Plane(num.h, num.w,
                     [i \in 1..num.h |-> [j \in 1..num.w |->
                         (255 * den * (num.px[i][j] - PlaneMin(num)))
                            \div (den * (PlaneMax(num) - PlaneMin(num)))]]))

\* lines 58-60: cv2.normalize(wm_float, None, 0, 255, cv2.NORM_MINMAX) and
\* astype(np.uint8).  With smin and smax the extremes of the source,
\* scale = 255 / (smax - smin), or 0 when smax = smin, and
\* dst = (src - smin) * scale, truncated to an integer.  A source with no
\* sample (no row or no column) makes the call raise.
NormalizeMinMax(num, den) ==
    IF num.h = 0 \/ num.w = 0 THEN Normalized(FALSE, NoPlane)
    ELSE LET nmin == PlaneMin(num)
             nmax == PlaneMax(num)
         IN  Normalized(TRUE,
               Plane(num.h, num.w,
                     [i \in 1..num.h |-> [j \in 1..num.w |->
                         IF nmax = nmin THEN 0
                         ELSE (255 * den * (num.px[i][j] - nmin)) \div (den * (nmax - nmin))]]))

\* lines 21-65
recover_watermark_channel(data, a) ==
    LET cropped == CropOdd(data)
        even == EvenRows(cropped)
        odd  == OddRows(cropped)
    IN  IF data.h % 2 # 0 /\ data.h - 1 = 0 THEN ReturnNone
        ELSE IF even.h # odd.h THEN ReturnNone
        ELSE LET num == WmFloatNum(cropped)
                 den == WmFloatDen(a)
                 wm_normalized == NormalizeMinMax(num, den)
             IN  IF ~wm_normalized.ok THEN ReturnNone
                 ELSE [done |-> TRUE, ok |-> TRUE, num |-> num, den |-> den,
                       img |-> wm_normalized.img]

MaxRows == 4
ChannelValues == {0, 1}
Channels == UNION {PlanesOf(h, w, ChannelValues) : h \in 1..MaxRows, w \in Widths}

Recover ==
    /\ ~recovered.done
    /\ recovered' = recover_watermark_channel(channel_data, ralpha)
    /\ UNCHANGED <<channel_data, ralpha>>
    /\ UNCHANGED exceptRecover

-----------------------------------------------------------------------------
(* The servers as run_servers.py starts them, the /embed and /extract        *)
(* handlers, and a client.  An image is known here by its shape only.        *)

EMBED_PORT == 5001
EXTRACT_PORT == 5000
\* test_integration.py: BASE_URL, and the form field of its extract request
TEST_PORT == 5000
TEST_EXTRACT_FIELD == "embedded_image"
Ports == {EMBED_PORT, EXTRACT_PORT}

ALLOWED_COVER_DIMENSIONS == {<<512, 512, 3>>}
ALLOWED_WATERMARK_DIMENSIONS == {<<32, 32, 3>>}
EXPECTED_WATERMARK_SHAPE == <<32, 32>>

\* an uploaded file: kind "image" (decodable, h x w, in a PIL mode), "bad" (no
\* image), "empty" (a form field with no file chosen) or "missing"
FileOf(kind, h, w, mode) == [kind |-> kind, h |-> h, w |-> w, mode |-> mode]
NoUpload == FileOf("missing", 0, 0, "")
BadUpload == FileOf("bad", 0, 0, "")
EmptyUpload == FileOf("empty", 0, 0, "")
EmbedDims == {<<512, 512>>, <<256, 256>>, <<512, 32>>, <<32, 32>>, <<16, 16>>}
EmbedUploads ==
    {NoUpload, BadUpload}
        \cup {FileOf("image", d[1], d[2], m) : d \in EmbedDims, m \in {"RGB", "L"}}
ExtractDims == {<<1, 4>>, <<2, 2>>, <<3, 5>>, <<64, 64>>}
ExtractUploads ==
    {BadUpload, EmptyUpload} \cup {FileOf("image", d[1], d[2], "RGB") : d \in ExtractDims}

NoRequest == [port |-> 0, field |-> "", image |-> NoUpload, watermark |-> NoUpload]
NoReply ==
    [code |-> 0, mimetype |-> "", text |-> "", details |-> <<>>, shape |-> <<>>,
     download_name |-> "", steps |-> <<>>, raised |-> {}, cvt_error |-> FALSE]
Reply(code, mimetype, text) == [NoReply EXCEPT !.code = code, !.mimetype = mimetype, !.text = text]

\* np.array(Image.open(f).convert('RGB')).shape
RgbShape(f) == <<f.h, f.w, 3>>

\* a faulty variant of is_valid_image: only the number of axes is compared
is_valid_image_ndim(shape, allowed_dimensions) ==
    \E d \in allowed_dimensions : Len(shape) = Len(d)

\* embed_backend.py lines 23-27
is_valid_image(shape, allowed_dimensions) == shape \in allowed_dimensions

\* embed_backend.py lines 78-124, on the two files of the request; steps lists
\* what the handler did, in order
EmbedReply(image, watermark) ==
    IF image.kind # "image" \/ watermark.kind # "image"
    THEN \* request.files[...] or Image.open raises: line 120
         [Reply(400, "text/html", "exception") EXCEPT !.steps = <<"load">>]
    ELSE IF ~is_valid_image(RgbShape(image), ALLOWED_COVER_DIMENSIONS)
    THEN [Reply(400, "text/html", "Invalid cover image dimensions.")
            EXCEPT !.steps = <<"load", "validate">>]
    ELSE IF ~is_valid_image(RgbShape(watermark), ALLOWED_WATERMARK_DIMENSIONS)
    THEN [Reply(400, "text/html", "Invalid watermark dimensions.")
            EXCEPT !.steps = <<"load", "validate">>]
    ELSE [Reply(200, "image/png", "")
            EXCEPT !.shape = RgbShape(image),
                   !.steps = <<"load", "validate", "resize", "rgb_to_ycbcr", "embedd_matrix",
                               "ycbcr_to_rgb", "clip", "png">>]

ChannelNames == <<"Y", "Cr", "Cb">>

\* extract_backend.py lines 21-65 on a plane known by its shape: None when the
\* plane has one row only (lines 35-40) or when anything raises (line 62),
\* else a plane of half the rows
RecoverShape(h, w, raises) ==
    LET cropped == IF h % 2 # 0 THEN h - 1 ELSE h
    IN  IF h % 2 # 0 /\ cropped = 0 THEN [ok |-> FALSE, h |-> 0, w |-> 0]
        ELSE IF raises THEN [ok |-> FALSE, h |-> 0, w |-> 0]
        ELSE [ok |-> TRUE, h |-> cropped \div 2, w |-> w]

\* a faulty variant of RecoveryErrors: the Cr channel is not reported
RecoveryErrorsNoCr(wy, wcr, wcb) ==
    (IF ~wy.ok THEN <<"Y channel recovery failed.">> ELSE <<>>)
        \o (IF ~wcb.ok THEN <<"Cb channel recovery failed.">> ELSE <<>>)

\* extract_backend.py lines 109-112
RecoveryErrors(wy, wcr, wcb) ==
    (IF ~wy.ok THEN <<"Y channel recovery failed.">> ELSE <<>>)
        \o (IF ~wcr.ok THEN <<"Cr channel recovery failed.">> ELSE <<>>)
        \o (IF ~wcb.ok THEN <<"Cb channel recovery failed.">> ELSE <<>>)

\* extract_backend.py lines 74-157.  raises: the channels whose recovery meets
\* an exception; cvt_error: cv2.cvtColor of the merged planes raises cv2.error.
ExtractReply(field, file, raises, cvt_error) ==
    IF field # "image" THEN Reply(400, "application/json", "No image file uploaded")
    ELSE IF file.kind = "empty" THEN Reply(400, "application/json", "No file selected")
    ELSE IF file.kind # "image"
    THEN Reply(400, "application/json", "Invalid image format or unable to decode")
    ELSE LET watermark_y  == RecoverShape(file.h, file.w, "Y" \in raises)
             watermark_cr == RecoverShape(file.h, file.w, "Cr" \in raises)
             watermark_cb == RecoverShape(file.h, file.w, "Cb" \in raises)
         IN  IF ~watermark_y.ok \/ ~watermark_cr.ok \/ ~watermark_cb.ok
             THEN [Reply(500, "application/json", "Failed to extract watermark.")
                     EXCEPT !.details = RecoveryErrors(watermark_y, watermark_cr, watermark_cb),
                            !.raised = raises]
             ELSE IF cvt_error
             THEN [Reply(200, "image/png", "")
                     EXCEPT !.shape = <<watermark_y.h, watermark_y.w>>,
                            !.download_name = "extracted_watermark_gray.png",
                            !.raised = raises, !.cvt_error = TRUE]
             ELSE [Reply(200, "image/png", "")
                     EXCEPT !.shape = <<EXPECTED_WATERMARK_SHAPE[1], EXPECTED_WATERMARK_SHAPE[2], 3>>,
                            !.download_name = "extracted_watermark_rgb.png",
                            !.raised = raises]

\* the client posts a cover and a watermark to /embed of one of the servers
PostEmbed ==
    /\ UNCHANGED exceptHttp
    /\ phase = "start"
    /\ \E port \in Ports, image \in EmbedUploads, watermark \in EmbedUploads :
          embed_req' = [port |-> port, field |-> "image", image |-> image,
                        watermark |-> watermark]
    /\ phase' = "embed_sent"
    /\ UNCHANGED <<embed_resp, extract_req, extract_resp>>

\* embed_backend.py line 78: the embed server answers
embed_watermark ==
    /\ UNCHANGED exceptHttp
    /\ phase = "embed_sent" /\ embed_req.port = EMBED_PORT
    /\ embed_resp' = EmbedReply(embed_req.image, embed_req.watermark)
    /\ phase' = "embed_done"
    /\ UNCHANGED <<embed_req, extract_req, extract_resp>>

\* the extract server has no /embed route: Flask answers 404
EmbedNotFound ==
    /\ UNCHANGED exceptHttp
    /\ phase = "embed_sent" /\ embed_req.port # EMBED_PORT
    /\ embed_resp' = Reply(404, "text/html", "Not Found")
    /\ phase' = "embed_done"
    /\ UNCHANGED <<embed_req, extract_req, extract_resp>>

\* the image the embed server returned, as a file to upload
Returned == FileOf("image", embed_resp.shape[1], embed_resp.shape[2], "RGB")

\* the client posts a file to /extract of one of the servers, under the form
\* field the handler reads or under the one the integration test uses: the
\* image /embed returned, or a file of its own
PostExtract ==
    /\ UNCHANGED exceptHttp
    /\ phase = "embed_done"
    /\ \E port \in Ports, field \in {"image", TEST_EXTRACT_FIELD},
          file \in ExtractUploads \cup (IF embed_resp.code = 200 THEN {Returned} ELSE {}) :
          extract_req' = [port |-> port, field |-> field, image |-> file,
                          watermark |-> NoUpload]
    /\ phase' = "extract_sent"
    /\ UNCHANGED <<embed_req, embed_resp, extract_resp>>

\* extract_backend.py line 74: the extract server answers
extract_watermark ==
    /\ UNCHANGED exceptHttp
    /\ phase = "extract_sent" /\ extract_req.port = EXTRACT_PORT
    /\ \E raises \in SUBSET {"Y", "Cr", "Cb"}, cvt_error \in BOOLEAN :
          extract_resp' = ExtractReply(extract_req.field, extract_req.image, raises, cvt_error)
    /\ phase' = "extract_done"
    /\ UNCHANGED <<embed_req, embed_resp, extract_req>>

\* the embed server has no /extract route: Flask answers 404
ExtractNotFound ==
    /\ UNCHANGED exceptHttp
    /\ phase = "extract_sent" /\ extract_req.port # EXTRACT_PORT
    /\ extract_resp' = Reply(404, "text/html", "Not Found")
    /\ phase' = "extract_done"
    /\ UNCHANGED <<embed_req, embed_resp, extract_req>>

NextHttp ==
    \/ PostEmbed
    \/ embed_watermark
    \/ EmbedNotFound
    \/ PostExtract
    \/ extract_watermark
    \/ ExtractNotFound

-----------------------------------------------------------------------------
(* Specifications *)

\* the decision rule on its own: the three metrics are the inputs
InitStatus ==
    /\ metrics \in [psnr : PsnrValues, ssim : SsimValues, correlation : CorrValues]
    /\ status = ""
    /\ clock = 0 /\ fs = NoFiles /\ call = NoCalls /\ foreign = {}
    /\ COVER = NoPlane /\ WATERMARK = NoPlane /\ alpha = ALPHA /\ embedded = NotEmbedded
    /\ channel_data = NoPlane /\ ralpha = ALPHA /\ recovered = NotRecovered
    /\ phase = "idle" /\ embed_req = NoRequest /\ embed_resp = NoReply
    /\ extract_req = NoRequest /\ extract_resp = NoReply

NextStatus == Decide

SpecStatus == InitStatus /\ [][NextStatus]_vars

\* NumCalls concurrent /verify calls on a server that has just started
InitVerify ==
    /\ metrics = NoMetrics /\ status = ""
    /\ clock = 0 /\ fs = NoFiles /\ call = NoCalls /\ foreign = {}
    /\ COVER = NoPlane /\ WATERMARK = NoPlane /\ alpha = ALPHA /\ embedded = NotEmbedded
    /\ channel_data = NoPlane /\ ralpha = ALPHA /\ recovered = NotRecovered
    /\ phase = "idle" /\ embed_req = NoRequest /\ embed_resp = NoReply
    /\ extract_req = NoRequest /\ extract_resp = NoReply

SpecVerify == InitVerify /\ [][NextVerify]_vars

\* embedd_matrix on every small cover plane, watermark and strength
InitEmbedd ==
    /\ metrics = NoMetrics /\ status = ""
    /\ clock = 0 /\ fs = NoFiles /\ call = NoCalls /\ foreign = {}
    /\ COVER \in Covers /\ WATERMARK \in Watermarks /\ alpha \in Alphas
    /\ embedded = NotEmbedded
    /\ channel_data = NoPlane /\ ralpha = ALPHA /\ recovered = NotRecovered
    /\ phase = "idle" /\ embed_req = NoRequest /\ embed_resp = NoReply
    /\ extract_req = NoRequest /\ extract_resp = NoReply

NextEmbedd == Embedd

SpecEmbedd == InitEmbedd /\ [][NextEmbedd]_vars

\* recover_watermark_channel on every small plane and strength
InitRecover ==
    /\ metrics = NoMetrics /\ status = ""
    /\ clock = 0 /\ fs = NoFiles /\ call = NoCalls /\ foreign = {}
    /\ COVER = NoPlane /\ WATERMARK = NoPlane /\ alpha = ALPHA /\ embedded = NotEmbedded
    /\ channel_data \in Channels /\ ralpha \in Alphas /\ recovered = NotRecovered
    /\ phase = "idle" /\ embed_req = NoRequest /\ embed_resp = NoReply
    /\ extract_req = NoRequest /\ extract_resp = NoReply

NextRecover == Recover

SpecRecover == InitRecover /\ [][NextRecover]_vars

\* the servers started, and a client about to post to /embed and to /extract
InitHttp ==
    /\ metrics = NoMetrics /\ status = ""
    /\ clock = 0 /\ fs = NoFiles /\ call = NoCalls /\ foreign = {}
    /\ COVER = NoPlane /\ WATERMARK = NoPlane /\ alpha = ALPHA /\ embedded = NotEmbedded
    /\ channel_data = NoPlane /\ ralpha = ALPHA /\ recovered = NotRecovered
    /\ phase = "start" /\ embed_req = NoRequest /\ embed_resp = NoReply
    /\ extract_req = NoRequest /\ extract_resp = NoReply

SpecHttp == InitHttp /\ [][NextHttp]_vars

-----------------------------------------------------------------------------
(* Properties *)

\* C1: whatever the three metric values, the verdict is Authentic exactly when
\* psnr >= 30 and ssim >= 0.95 and correlation >= 0.98, each bound included,
\* and Tampered in every other case (nan is below every threshold).
C1_DecisionRule ==
    status # "" =>
        /\ status \in {"Authentic", "Tampered"}
        /\ status = "Authentic" <=>
              /\ metrics.psnr # NaN /\ metrics.psnr >= 3000
              /\ metrics.ssim # NaN /\ metrics.ssim >= 95
              /\ metrics.correlation # NaN /\ metrics.correlation >= 98

\* the three metrics exactly at their thresholds give Authentic
C1_Witness ==
    /\ status = "Authentic"
    /\ metrics = [psnr |-> 3000, ssim |-> 95, correlation |-> 98]

\* a call whose two uploads decoded and whose metrics are computed
Measured(c) == call[c].initial_watermark # NoPlane

\* C2: verify(img, img) yields psnr = 999.99 and the verdict Authentic, for
\* every decodable image, the images of one constant value included.
C2_IdenticalIsAuthentic ==
    \A c \in Calls :
        (Measured(c) /\ call[c].extracted_watermark = call[c].initial_watermark) =>
            /\ call[c].psnr_value = PSNR_SENTINEL
            /\ call[c].status = "Authentic"

\* the response of a call that runs alone
AloneResponse(c) ==
    LET m == Metrics(call[c].initial_watermark, call[c].extracted_watermark)
    IN  [code |-> 200, text |-> "", psnr |-> m.psnr_value, ssim |-> m.ssim_value,
         correlation |-> m.correlation, status |-> m.status,
         downloadLink |-> call[c].timestamp]

\* C4: concurrent verify calls on valid inputs are independent: each ends with
\* the result it returns when run alone, and none reads, overwrites or deletes
\* a file another call created.
C4_Independent ==
    /\ foreign = {}
    /\ \A c \in Calls :
          (call[c].pc = "done" /\ Measured(c)) => call[c].response = AloneResponse(c)

\* C10: on a plane of even height, embedd_matrix returns a plane of the shape
\* of its input in which, for every row pair i and column j, the two rows
\* still add up to cover[2i][j] + cover[2i+1][j] and differ by
\* 2 * alpha * s[i][j], s being the watermark after resize and blur: rows in
\* their order, nothing clamped.  (Samples are in 1/200, alpha in 1/100.)
C10_RowPairs ==
    (embedded.done /\ COVER.h % 2 = 0) =>
        LET s == GaussianBlur(
                    IF <<WATERMARK.h, WATERMARK.w>> = <<COVER.h \div 2, COVER.w>>
                    THEN WATERMARK
                    ELSE ResizeLinear(WATERMARK, COVER.h \div 2, COVER.w))
            out == embedded.plane.px
        IN  /\ embedded.ok
            /\ embedded.plane.h = COVER.h /\ embedded.plane.w = COVER.w
            /\ \A i \in 1..(COVER.h \div 2), j \in 1..COVER.w :
                  /\ out[2 * i - 1][j] + out[2 * i][j]
                        = 200 * (COVER.px[2 * i - 1][j] + COVER.px[2 * i][j])
                  /\ out[2 * i - 1][j] - out[2 * i][j] = 4 * alpha * s.px[i][j]

\* two row pairs embedded, a sample above 255 and one below 0 left unclamped
C10_Witness ==
    /\ embedded.done /\ embedded.ok /\ COVER.h = 4 /\ COVER.w = 2
    /\ \E i \in 1..4, j \in 1..2 : embedded.plane.px[i][j] > 200 * 255
    /\ \E i \in 1..4, j \in 1..2 : embedded.plane.px[i][j] < 0
    /\ <<WATERMARK.h, WATERMARK.w>> # <<2, 2>>

\* the difference plane even - odd of a plane of even height is one value
ConstantDifference(p) ==
    \A i1, i2 \in 1..(p.h \div 2), j1, j2 \in 1..p.w :
        p.px[2 * i1 - 1][j1] - p.px[2 * i1][j1] = p.px[2 * i2 - 1][j2] - p.px[2 * i2][j2]

C7_OddHeight ==
    (recovered.done /\ channel_data.h % 2 = 1) =>
        LET other == recover_watermark_channel(
                        Plane(channel_data.h - 1, channel_data.w,
                              SubSeq(channel_data.px, 1, channel_data.h - 1)),
                        ralpha)
        IN  /\ recovered.ok = other.ok
            /\ recovered.img = other.img
            /\ channel_data.h = 1 => ~recovered.ok
            /\ channel_data.h > 1 => (recovered.ok /\ recovered.img.h = (channel_data.h - 1) \div 2)

\* a plane of three rows, recovered from its first two
C7_Witness ==
    /\ recovered.done /\ recovered.ok /\ channel_data.h = 3 /\ channel_data.w = 2
    /\ recovered.img.px[1][1] # recovered.img.px[1][2]

\* C8, as amended: when the difference plane is constant, recover returns an
\* 8-bit plane of half the input height whose every sample is 0.
C8_ConstantIsZero ==
    (recovered.done /\ channel_data.h % 2 = 0 /\ ConstantDifference(channel_data)) =>
        /\ recovered.ok
        /\ recovered.img.h = channel_data.h \div 2 /\ recovered.img.w = channel_data.w
        /\ \A i \in 1..recovered.img.h, j \in 1..recovered.img.w : recovered.img.px[i][j] = 0

\* every even row equal to the row under it, recovered
C8_Witness ==
    /\ recovered.done /\ recovered.ok /\ channel_data.h = 4 /\ channel_data.w = 2
    /\ channel_data.px[1] = channel_data.px[2] /\ channel_data.px[3] = channel_data.px[4]
    /\ channel_data.px[1] # channel_data.px[3]

\* C8, as claimed: when the difference plane is constant, recover returns an
\* 8-bit plane of half the input height whose every sample is one mid-range
\* value (mid-gray), not 0.
C8_ConstantIsMidGray ==
    (recovered.done /\ channel_data.h % 2 = 0 /\ ConstantDifference(channel_data)) =>
        /\ recovered.ok
        /\ recovered.img.h = channel_data.h \div 2 /\ recovered.img.w = channel_data.w
        /\ \E v \in 127..128 :
              \A i \in 1..recovered.img.h, j \in 1..recovered.img.w : recovered.img.px[i][j] = v

\* the embed server has answered a request whose two files are images
EmbedAnswered ==
    /\ embed_resp.code # 0 /\ embed_req.port = EMBED_PORT
    /\ embed_req.image.kind = "image" /\ embed_req.watermark.kind = "image"

CoverShapeOk == <<embed_req.image.h, embed_req.image.w, 3>> = <<512, 512, 3>>
WatermarkShapeOk == <<embed_req.watermark.h, embed_req.watermark.w, 3>> = <<32, 32, 3>>
\* the handler stopped at the validation and returned no image
StoppedAtValidation ==
    /\ embed_resp.code = 400 /\ embed_resp.mimetype # "image/png" /\ embed_resp.shape = <<>>
    /\ \A k \in 1..Len(embed_resp.steps) : embed_resp.steps[k] \in {"load", "validate"}

\* C3: embed succeeds only with a cover of shape (512,512,3) and a watermark
\* of shape (32,32,3); any other cover shape, and any other watermark shape,
\* alone makes the call fail with an error that names the input, before any
\* resize, colour transform or embedding, and no image is returned.
C3_ShapeValidation ==
    /\ (embed_resp.code = 200 /\ embed_req.port = EMBED_PORT) =>
          (EmbedAnswered /\ CoverShapeOk /\ WatermarkShapeOk)
    /\ EmbedAnswered =>
          /\ ~CoverShapeOk =>
                (StoppedAtValidation /\ embed_resp.text = "Invalid cover image dimensions.")
          /\ (CoverShapeOk /\ ~WatermarkShapeOk) =>
                (StoppedAtValidation /\ embed_resp.text = "Invalid watermark dimensions.")

\* a valid cover with a 16 x 16 watermark: refused for the watermark
C3_Witness ==
    /\ EmbedAnswered /\ CoverShapeOk
    /\ embed_req.watermark.h = 16 /\ embed_req.watermark.w = 16
    /\ embed_resp.text = "Invalid watermark dimensions."

\* C5: for every valid cover and watermark the embed request of the
\* integration test returns 200 with content type image/png, and its extract
\* request, which uploads the returned image, returns 200 with content type
\* image/png too.
C5_PipelineSucceeds ==
    /\ (/\ embed_resp.code # 0 /\ embed_req.port = TEST_PORT
        /\ embed_req.image = FileOf("image", 512, 512, "RGB")
        /\ embed_req.watermark = FileOf("image", 32, 32, "RGB"))
          => (embed_resp.code = 200 /\ embed_resp.mimetype = "image/png")
    /\ (/\ extract_resp.code # 0 /\ extract_req.port = TEST_PORT
        /\ extract_req.field = TEST_EXTRACT_FIELD
        /\ embed_resp.code = 200 /\ extract_req.image = Returned
        /\ extract_resp.raised = {} /\ ~extract_resp.cvt_error)
          => (extract_resp.code = 200 /\ extract_resp.mimetype = "image/png")

\* the extract server has answered a request that reached the recovery
Recovering ==
    /\ extract_resp.code # 0 /\ extract_req.port = EXTRACT_PORT
    /\ extract_req.field = "image" /\ extract_req.image.kind = "image"

\* the channels whose recovery returned None: all three when the image has one
\* row, else those that raised
FailedChannels ==
    IF extract_req.image.h = 1 THEN {"Y", "Cr", "Cb"} ELSE extract_resp.raised

\* C9: if the recovery of any of the planes Y, Cr, Cb returns None, extract
\* fails with one error whose details list exactly the channels that failed
\* and returns no image; an image is returned only when all three succeeded.
C9_FailedChannelsListed ==
    Recovering =>
        /\ FailedChannels # {} =>
              /\ extract_resp.code = 500 /\ extract_resp.mimetype # "image/png"
              /\ extract_resp.shape = <<>>
              /\ extract_resp.text = "Failed to extract watermark."
              /\ Len(extract_resp.details) = Cardinality(FailedChannels)
              /\ \A ch \in {"Y", "Cr", "Cb"} :
                    ch \in FailedChannels <=>
                        \E k \in 1..Len(extract_resp.details) :
                            extract_resp.details[k] =
                                (CASE ch = "Y" -> "Y channel recovery failed."
                                   [] ch = "Cr" -> "Cr channel recovery failed."
                                   [] ch = "Cb" -> "Cb channel recovery failed.")
        /\ extract_resp.code = 200 => FailedChannels = {}

\* the Cr recovery alone failed, and the error lists it alone
C9_Witness ==
    /\ Recovering /\ extract_req.image.h > 1 /\ extract_resp.raised = {"Cr"}
    /\ extract_resp.details = <<"Cr channel recovery failed.">>

\* C11: every image a successful extract call returns has the canonical
\* watermark size 32x32, whatever the size of the suspect image, on the
\* full-colour branch and on the grayscale fallback taken when the inverse
\* colour conversion fails.
C11_CanonicalSize ==
    (/\ extract_resp.code = 200 /\ extract_req.port = EXTRACT_PORT
     /\ extract_resp.mimetype = "image/png")
        => /\ Len(extract_resp.shape) >= 2
           /\ extract_resp.shape[1] = EXPECTED_WATERMARK_SHAPE[1]
           /\ extract_resp.shape[2] = EXPECTED_WATERMARK_SHAPE[2]

====
